---- MODULE Spec2Model ----
(***************************************************************************)
(* TomieChecker: reads a Cargo manifest, asks the registry for the         *)
(* published versions of every dependency and reports the outdated ones.   *)
(* Strings are sequences of one-character strings, so that trimming,       *)
(* splitting, parsing and formatting are modelled by what they do.         *)
(***************************************************************************)
EXTENDS Integers, Sequences, FiniteSets, TLC

VARIABLES
    manifest,    \* the file at cargo_path: exists / readable / decodable / dependencies
    pc,          \* position of main and analyze_dependencies
    todo,        \* names the `for (name, dep) in dependencies` loop has still to visit
    futures,     \* the Vec of analyze_dependency futures, each identified by its name
    fut,         \* per dependency name: the state of its analyze_dependency future
    polled,      \* how many futures of the Vec join_all has polled for the first time
    requests,    \* names for which the GET request has been issued
    completion,  \* names in the order in which their futures finished
    analyses,    \* Vec<DependencyAnalysis> returned by analyze_dependencies
    printed,     \* report lines written by main
    nv_pc,       \* position of a stand-alone caller of normalize_version
    nv_in,       \* the argument handed to normalize_version
    nv_out,      \* what normalize_version returned for nv_in
    nv_out2      \* what it returned for nv_in with its leading caret removed by the caller

vars == <<manifest, pc, todo, futures, fut, polled, requests, completion,
          analyses, printed, nv_pc, nv_in, nv_out, nv_out2>>

pipeVars == <<manifest, pc, todo, futures, fut, polled, requests, completion,
              analyses, printed>>

normVars == <<nv_pc, nv_in, nv_out, nv_out2>>

----------------------------------------------------------------------------
(* Bounds *)

MaxLen == 5      \* longest version string handed to normalize_version on its own
MaxDeps == 2     \* number of distinct dependency names a manifest may declare

Alphabet == {"^", ".", "0", "1", "x"}

RECURSIVE StringsOfLen(_)
StringsOfLen(n) ==
    IF n = 0 THEN {<<>>}
    ELSE {Append(s, c) : s \in StringsOfLen(n - 1), c \in Alphabet}

VersionStrings == UNION {StringsOfLen(n) : n \in 0..MaxLen}

\* Dependency names, in ascending (byte-wise) order.
NamePool == <<"bar", "foo", "qux", "zed">>

DepNames == {NamePool[i] : i \in 1..MaxDeps}

----------------------------------------------------------------------------
(* Strings *)

Digits == <<"0", "1", "2", "3", "4", "5", "6", "7", "8", "9">>

IsDigit(c) == \E i \in 1..10 : Digits[i] = c

DigitVal(c) == (CHOOSE i \in 1..10 : Digits[i] = c) - 1

\* removes one leading caret only, as str::strip_prefix would
TrimStartOnce(s) ==
    IF s # <<>> /\ Head(s) = "^" THEN Tail(s) ELSE s

\* str::trim_start_matches('^'): removes the pattern repeatedly from the start
RECURSIVE TrimStartMatches(_)
TrimStartMatches(s) ==
    IF s # <<>> /\ Head(s) = "^" THEN TrimStartMatches(Tail(s)) ELSE s

\* str::split('.'): one more part than there are dots, empty parts kept
RECURSIVE Split(_)
Split(s) ==
    IF \A i \in 1..Len(s) : s[i] # "."
    THEN <<s>>
    ELSE LET i == CHOOSE j \in 1..Len(s) :
                     s[j] = "." /\ \A k \in 1..(j - 1) : s[k] # "."
         IN <<SubSeq(s, 1, i - 1)>> \o Split(SubSeq(s, i + 1, Len(s)))

\* normalize_version with a wrong zero-fill of the two-component case
normalize_version_pad(version) ==
    LET parts == Split(TrimStartMatches(version))
    IN CASE Len(parts) = 1 -> parts[1] \o <<".", "0", ".", "0">>
         [] Len(parts) = 2 -> parts[1] \o <<".">> \o parts[2] \o <<".", "0", ".", "0">>
         [] OTHER -> TrimStartMatches(version)

normalize_version(version) ==
    LET parts == Split(TrimStartMatches(version))
    IN CASE Len(parts) = 1 -> parts[1] \o <<".", "0", ".", "0">>
         [] Len(parts) = 2 -> parts[1] \o <<".">> \o parts[2] \o <<".", "0">>
         [] OTHER -> TrimStartMatches(version)

----------------------------------------------------------------------------
(* semver::Version, restricted to the characters of Alphabet and the digits: *)
(* no '-' or '+' occurs, so pre-release and build metadata are always empty. *)

\* a numeric identifier: non-empty, digits only, no leading zero
IsNumeric(p) ==
    /\ p # <<>>
    /\ \A i \in 1..Len(p) : IsDigit(p[i])
    /\ (Len(p) > 1 => p[1] # "0")

RECURSIVE ParseNum(_)
ParseNum(p) ==
    IF p = <<>> THEN 0
    ELSE 10 * ParseNum(SubSeq(p, 1, Len(p) - 1)) + DigitVal(p[Len(p)])

RECURSIVE NumToString(_)
NumToString(n) ==
    IF n < 10 THEN <<Digits[n + 1]>>
    ELSE NumToString(n \div 10) \o <<Digits[(n % 10) + 1]>>

NoVersion == [ok |-> FALSE, major |-> 0, minor |-> 0, patch |-> 0]

\* Version::parse
VersionParse(s) ==
    LET parts == Split(s)
    IN IF Len(parts) = 3 /\ \A i \in 1..3 : IsNumeric(parts[i])
       THEN [ok |-> TRUE, major |-> ParseNum(parts[1]),
             minor |-> ParseNum(parts[2]), patch |-> ParseNum(parts[3])]
       ELSE NoVersion

\* Version's Display
VersionToString(v) ==
    NumToString(v.major) \o <<".">> \o NumToString(v.minor) \o <<".">>
        \o NumToString(v.patch)

\* Version's Ord: major, then minor, then patch
VersionGt(a, b) ==
    \/ a.major > b.major
    \/ a.major = b.major /\ a.minor > b.minor
    \/ a.major = b.major /\ a.minor = b.minor /\ a.patch > b.patch

----------------------------------------------------------------------------
(* utils: Tomie, Dependency, DependencyDetail, DependencyAnalysis *)

Str(s) == [some |-> TRUE, v |-> s]
NoStr == [some |-> FALSE, v |-> <<>>]

\* enum Dependency
Simple(version) == [kind |-> "Simple", version |-> Str(version)]
Detailed(version) == [kind |-> "Detailed", version |-> version]

\* struct DependencyAnalysis
DependencyAnalysis(name, current_version, latest_version, is_outdated) ==
    [name |-> name, current_version |-> current_version,
     latest_version |-> latest_version, is_outdated |-> is_outdated]

NoAnalysis == DependencyAnalysis("", <<>>, <<>>, FALSE)

\* AnalysisResult = Result<Option<DependencyAnalysis>, Box<dyn Error>>
OkSome(rec) == [kind |-> "Some", rec |-> rec]
OkNone == [kind |-> "None", rec |-> NoAnalysis]
Err == [kind |-> "Err", rec |-> NoAnalysis]
Pending == [kind |-> "Pending", rec |-> NoAnalysis]

----------------------------------------------------------------------------
(* The inputs: manifests and registry answers *)

V_1_2 == <<"1", ".", "2">>
V_c2_0_0 == <<"^", "2", ".", "0", ".", "0">>
V_cc1 == <<"^", "^", "1">>
V_x == <<"x">>
V_1_2_0 == <<"1", ".", "2", ".", "0">>
V_1_3_0 == <<"1", ".", "3", ".", "0">>
V_2_0_0 == <<"2", ".", "0", ".", "0">>

Declarations ==
    {Simple(V_1_2), Simple(V_c2_0_0), Simple(V_x),
     Detailed(Str(V_cc1)), Detailed(NoStr)}

\* a dependency table: BTreeMap<String, Dependency>
Tables == UNION {[names -> Declarations] : names \in SUBSET DepNames}

NoTable == [some |-> FALSE, table |-> <<>>]

Manifests ==
    [exists : BOOLEAN, readable : BOOLEAN, decodable : BOOLEAN,
     dependencies : {NoTable} \cup {[some |-> TRUE, table |-> t] : t \in Tables}]

\* one element of the JSON `versions` array: its `num` is a string or is not
Num(s) == [is_str |-> TRUE, num |-> s]
NoNum == [is_str |-> FALSE, num |-> <<>>]

\* the response body: undecodable, JSON without a `versions` array, or with one
BadBody == [kind |-> "bad", versions |-> <<>>]
NoVersionsBody == [kind |-> "no_versions", versions |-> <<>>]
VersionsBody(vs) == [kind |-> "versions", versions |-> vs]
NoBody == [kind |-> "none", versions |-> <<>>]

Bodies ==
    {BadBody, NoVersionsBody, VersionsBody(<<>>),
     VersionsBody(<<Num(V_1_3_0), Num(V_1_2_0)>>),
     VersionsBody(<<Num(V_2_0_0)>>),
     VersionsBody(<<NoNum, Num(V_1_2_0), Num(V_1_3_0)>>),
     VersionsBody(<<Num(V_x), Num(V_1_2_0)>>)}

SendOutcomes == {"transport_err", "http_fail", "http_ok"}

----------------------------------------------------------------------------
(* get_crate_versions, parse_dependency_version, analyze_dependency *)

\* .iter().filter_map(|v| v["num"].as_str().map(String::from)).collect()
RECURSIVE FilterNums(_)
FilterNums(vs) ==
    IF vs = <<>> THEN <<>>
    ELSE IF Head(vs).is_str THEN <<Head(vs).num>> \o FilterNums(Tail(vs))
    ELSE FilterNums(Tail(vs))

\* Result<Vec<String>, _> of get_crate_versions
OkVec(v) == [ok |-> TRUE, v |-> v]
ErrVec == [ok |-> FALSE, v |-> <<>>]

\* get_crate_versions, from the outcome of send() and of json()
get_crate_versions(send, body) ==
    IF send = "transport_err" THEN ErrVec
    ELSE IF send = "http_fail" THEN OkVec(<<>>)
    ELSE IF body.kind = "bad" THEN ErrVec
    ELSE IF body.kind = "no_versions" THEN ErrVec
    ELSE OkVec(FilterNums(body.versions))

parse_dependency_version(dep) ==
    IF dep.kind = "Simple" THEN dep.version ELSE dep.version

\* versions.last() in place of versions.first()
LatestLast(versions) == versions[Len(versions)]

\* versions.first().unwrap()
Latest(versions) == versions[1]

\* a record whose current_version is the parsed, zero-filled form
MakeAnalysisNormalized(name, current_version, current, latest) ==
    DependencyAnalysis(name, VersionToString(current),
                       VersionToString(latest), VersionGt(latest, current))

\* the Ok(Some(DependencyAnalysis {..})) arm
MakeAnalysis(name, current_version, current, latest) ==
    DependencyAnalysis(name, TrimStartMatches(current_version),
                       VersionToString(latest), VersionGt(latest, current))

\* analyze_dependency with the declared version's parse error defaulted to 0.0.0
analyze_dependency_lenient(name, current_version, got) ==
    IF ~got.ok THEN Err
    ELSE IF got.v = <<>> THEN OkNone
    ELSE LET current == VersionParse(normalize_version(current_version))
             latest == VersionParse(normalize_version(Latest(got.v)))
         IN IF latest.ok
            THEN OkSome(MakeAnalysis(name, current_version, current, latest))
            ELSE OkNone

\* analyze_dependency once get_crate_versions has returned `got`
analyze_dependency(name, current_version, got) ==
    IF ~got.ok THEN Err
    ELSE IF got.v = <<>> THEN OkNone
    ELSE LET current == VersionParse(normalize_version(current_version))
             latest == VersionParse(normalize_version(Latest(got.v)))
         IN IF current.ok /\ latest.ok
            THEN OkSome(MakeAnalysis(name, current_version, current, latest))
            ELSE OkNone

----------------------------------------------------------------------------
(* The pipeline: main, analyze_dependencies, join_all *)

NameRank(n) == CHOOSE i \in 1..Len(NamePool) : NamePool[i] = n

\* BTreeMap's iteration order: ascending keys
RECURSIVE BTreeIter(_)
BTreeIter(names) ==
    IF names = {} THEN <<>>
    ELSE LET first == CHOOSE n \in names : \A m \in names : NameRank(n) <= NameRank(m)
         IN <<first>> \o BTreeIter(names \ {first})

NoFuture ==
    [st |-> "absent", current_version |-> <<>>, send |-> "none",
     body |-> NoBody, result |-> Pending]

\* the future analyze_dependency(name, current_version) creates: nothing has run yet
NewFuture(current_version) ==
    [st |-> "created", current_version |-> current_version, send |-> "none",
     body |-> NoBody, result |-> Pending]

\* a join that returns as soon as one future is ready (select-like)
AnyFinished(fs, f) ==
    fs = <<>> \/ \E i \in 1..Len(fs) : f[fs[i]].st = "done"

\* join_all is ready when every future of the Vec is
AllFinished(fs, f) ==
    \A i \in 1..Len(fs) : f[fs[i]].st = "done"

RECURSIVE FilterSome(_)
FilterSome(results) ==
    IF results = <<>> THEN <<>>
    ELSE IF Head(results).kind = "Some"
         THEN <<Head(results).rec>> \o FilterSome(Tail(results))
         ELSE FilterSome(Tail(results))

\* Result<Vec<DependencyAnalysis>, _> of analyze_dependencies
OkAnalyses(v) == [ok |-> TRUE, v |-> v]
ErrAnalyses == [ok |-> FALSE, v |-> <<>>]

\* results.into_iter().collect::<Result<Vec<_>, _>>()?: the first Err aborts
CollectFailFast(results) ==
    IF \E i \in 1..Len(results) : results[i].kind \in {"Err", "Pending"}
    THEN ErrAnalyses
    ELSE OkAnalyses(FilterSome(results))

\* results.into_iter().filter_map(|r| r.ok().and_then(|o| o)).collect()
Collect(results) == OkAnalyses(FilterSome(results))

\* the output of a join that yields results as the futures finish
JoinOutputByCompletion(fs, f, order) ==
    [i \in 1..Len(order) |-> f[order[i]].result]

\* the output of join_all: one result per future, in the order of the Vec
JoinOutput(fs, f, order) ==
    [i \in 1..Len(fs) |-> f[fs[i]].result]

Init ==
    /\ manifest \in Manifests
    /\ pc = "main"
    /\ todo = <<>>
    /\ futures = <<>>
    /\ fut = [n \in DepNames |-> NoFuture]
    /\ polled = 0
    /\ requests = {}
    /\ completion = <<>>
    /\ analyses = <<>>
    /\ printed = <<>>
    /\ nv_pc = "off"
    /\ nv_in = <<>>
    /\ nv_out = <<>>
    /\ nv_out2 = <<>>

\* main: if !cargo_path.exists() { return Err(..) }
MainCheckPath ==
    /\ pc = "main"
    /\ pc' = IF manifest.exists THEN "read" ELSE "exit_err"
    /\ UNCHANGED <<manifest, todo, futures, fut, polled, requests, completion,
                   analyses, printed, normVars>>

\* fs::read_to_string(cargo_toml_path)?
ReadToString ==
    /\ pc = "read"
    /\ pc' = IF manifest.readable THEN "decode" ELSE "exit_err"
    /\ UNCHANGED <<manifest, todo, futures, fut, polled, requests, completion,
                   analyses, printed, normVars>>

\* a decode whose error is swallowed: the manifest counts as having no dependencies
FromStrOrDefault ==
    /\ pc = "decode"
    /\ IF manifest.decodable /\ manifest.dependencies.some
       THEN /\ pc' = "launch"
            /\ todo' = BTreeIter(DOMAIN manifest.dependencies.table)
       ELSE /\ pc' = "report"
            /\ todo' = todo
    /\ UNCHANGED <<manifest, futures, fut, polled, requests, completion,
                   analyses, printed, normVars>>

\* toml::from_str(&content)?, then the match on cargo_toml.dependencies
FromStr ==
    /\ pc = "decode"
    /\ IF ~manifest.decodable
       THEN /\ pc' = "exit_err"
            /\ todo' = todo
       ELSE IF manifest.dependencies.some
       THEN /\ pc' = "launch"
            /\ todo' = BTreeIter(DOMAIN manifest.dependencies.table)
       ELSE /\ pc' = "report"
            /\ todo' = todo
    /\ UNCHANGED <<manifest, futures, fut, polled, requests, completion,
                   analyses, printed, normVars>>

\* one iteration of `for (name, dep) in dependencies`, or the end of the loop
PushFuture ==
    /\ pc = "launch"
    /\ IF todo = <<>>
       THEN /\ pc' = "join"
            /\ UNCHANGED <<todo, futures, fut>>
       ELSE LET name == Head(todo)
                version == parse_dependency_version(manifest.dependencies.table[name])
            IN /\ todo' = Tail(todo)
               /\ pc' = pc
               /\ IF version.some
                  THEN /\ futures' = Append(futures, name)
                       /\ fut' = [fut EXCEPT ![name] = NewFuture(version.v)]
                  ELSE UNCHANGED <<futures, fut>>
    /\ UNCHANGED <<manifest, polled, requests, completion, analyses, printed, normVars>>

\* join_all's first poll of the next future: it runs up to client.get(..).send().await
PollFirst ==
    /\ pc = "join"
    /\ polled < Len(futures)
    /\ LET name == futures[polled + 1]
       IN /\ fut' = [fut EXCEPT ![name].st = "send"]
          /\ requests' = requests \cup {name}
    /\ polled' = polled + 1
    /\ UNCHANGED <<manifest, pc, todo, futures, completion, analyses, printed, normVars>>

\* the future of `name` finishes with `result`
Finish(name, send, body) ==
    /\ fut' = [fut EXCEPT ![name].st = "done", ![name].send = send, ![name].body = body,
                          ![name].result =
                              analyze_dependency(name, fut[name].current_version,
                                                 get_crate_versions(send, body))]
    /\ completion' = Append(completion, name)

\* send().await returns: a transport error, a non-success status, or a success
SendReturns(name) ==
    /\ pc = "join"
    /\ fut[name].st = "send"
    /\ \E send \in SendOutcomes :
         IF send = "http_ok"
         THEN /\ fut' = [fut EXCEPT ![name].st = "json", ![name].send = send]
              /\ UNCHANGED completion
         ELSE Finish(name, send, NoBody)
    /\ UNCHANGED <<manifest, pc, todo, futures, polled, requests, analyses, printed,
                   normVars>>

\* response.json().await returns, and the rest of analyze_dependency runs
JsonReturns(name) ==
    /\ pc = "join"
    /\ fut[name].st = "json"
    /\ \E body \in Bodies : Finish(name, fut[name].send, body)
    /\ UNCHANGED <<manifest, pc, todo, futures, polled, requests, analyses, printed,
                   normVars>>

\* join_all(futures).await returns; the results are filtered and returned
JoinReturns ==
    /\ pc = "join"
    /\ polled = Len(futures)
    /\ AllFinished(futures, fut)
    /\ LET collected == Collect(JoinOutput(futures, fut, completion))
       IN IF collected.ok
          THEN /\ analyses' = collected.v
               /\ pc' = "report"
          ELSE /\ analyses' = analyses
               /\ pc' = "exit_err"
    /\ UNCHANGED <<manifest, todo, futures, fut, polled, requests, completion, printed,
                   normVars>>

\* main prints the report and returns Ok(())
Report ==
    /\ pc = "report"
    /\ printed' = analyses
    /\ pc' = "exit_ok"
    /\ UNCHANGED <<manifest, todo, futures, fut, polled, requests, completion,
                   analyses, normVars>>

Next ==
    \/ MainCheckPath
    \/ ReadToString
    \/ FromStr
    \/ PushFuture
    \/ PollFirst
    \/ \E name \in DepNames : SendReturns(name)
    \/ \E name \in DepNames : JsonReturns(name)
    \/ JoinReturns
    \/ Report

Spec == Init /\ [][Next]_vars

----------------------------------------------------------------------------
(* normalize_version on its own, over every string of VersionStrings *)

InitNorm ==
    /\ manifest = [exists |-> FALSE, readable |-> FALSE, decodable |-> FALSE,
                   dependencies |-> NoTable]
    /\ pc = "off"
    /\ todo = <<>>
    /\ futures = <<>>
    /\ fut = [n \in DepNames |-> NoFuture]
    /\ polled = 0
    /\ requests = {}
    /\ completion = <<>>
    /\ analyses = <<>>
    /\ printed = <<>>
    /\ nv_pc = "call"
    /\ nv_in \in VersionStrings
    /\ nv_out = <<>>
    /\ nv_out2 = <<>>

\* normalize_version(nv_in)
Normalize ==
    /\ nv_pc = "call"
    /\ nv_out' = normalize_version(nv_in)
    /\ nv_pc' = "returned"
    /\ UNCHANGED <<nv_in, nv_out2, pipeVars>>

\* the caller removes the leading caret itself and normalizes again
NormalizeStripped ==
    /\ nv_pc = "returned"
    /\ nv_out2' = normalize_version(IF nv_in # <<>> /\ Head(nv_in) = "^"
                                    THEN Tail(nv_in) ELSE nv_in)
    /\ nv_pc' = "returned2"
    /\ UNCHANGED <<nv_in, nv_out, pipeVars>>

NextNorm == Normalize \/ NormalizeStripped

SpecNorm == InitNorm /\ [][NextNorm]_vars

\* both runs in one specification
InitAll == Init \/ InitNorm

NextAll == Next \/ NextNorm

SpecAll == InitAll /\ [][NextAll]_vars

----------------------------------------------------------------------------
(* Vocabulary of the properties *)

\* s is t behind k carets
CaretsThen(s, k, t) ==
    /\ k \in 0..Len(s)
    /\ \A i \in 1..k : s[i] = "^"
    /\ t = SubSeq(s, k + 1, Len(s))

\* s with a leading caret removed: t is s itself when s begins with no caret,
\* and s behind one or more of its leading carets otherwise
CaretStripped(s, t) ==
    \E k \in 0..Len(s) :
        /\ CaretsThen(s, k, t)
        /\ (k > 0 <=> (s # <<>> /\ s[1] = "^"))

\* s with exactly one leading caret removed, if it has one
OneCaretStripped(s, t) ==
    CaretsThen(s, IF s # <<>> /\ s[1] = "^" THEN 1 ELSE 0, t)

\* s with every leading caret removed
AllCaretsStripped(s, t) ==
    /\ \E k \in 0..Len(s) : CaretsThen(s, k, t)
    /\ (t = <<>> \/ t[1] # "^")

DotCount(t) == Cardinality({i \in 1..Len(t) : t[i] = "."})

\* the zero-fill that completes t to three components
ZeroFill(t) ==
    CASE DotCount(t) = 0 -> t \o <<".", "0", ".", "0">>
      [] DotCount(t) = 1 -> t \o <<".", "0">>
      [] OTHER -> t

IsString(s) == \A i \in 1..Len(s) : s[i] \in Alphabet

Launched(n) == fut[n].st # "absent"

HasRecord(n) == fut[n].result.kind = "Some"

\* the version the manifest declares for n
Declared(n) == manifest.dependencies.table[n].version

\* the version list the registry lookup of n returned: empty unless the status was
\* a success and the body carried a `versions` array
Looked(n) ==
    IF fut[n].send = "http_ok" /\ fut[n].body.kind = "versions"
    THEN FilterNums(fut[n].body.versions)
    ELSE <<>>

ParsedDeclared(n) == VersionParse(normalize_version(Declared(n).v))

ParsedFirst(n) == VersionParse(normalize_version(Looked(n)[1]))

\* n's own analysis succeeds: a version is declared, the lookup returned at least
\* one version, and the declared and the first listed version both parse
Analysable(n) ==
    /\ fut[n].st = "done"
    /\ Looked(n) # <<>>
    /\ ParsedDeclared(n).ok
    /\ ParsedFirst(n).ok

Key(v) == (v.major * 1000 + v.minor) * 1000 + v.patch

Returned == pc \in {"report", "exit_ok"}

InResult(n) == \E i \in 1..Len(analyses) : analyses[i].name = n

Fatal == ~manifest.exists \/ ~manifest.readable \/ ~manifest.decodable

\* the names of the manifest that declare a version
Extractable ==
    IF manifest.dependencies.some
    THEN {n \in DOMAIN manifest.dependencies.table : Declared(n).some}
    ELSE {}

----------------------------------------------------------------------------
(* Properties *)

\* C1: normalize_version always returns a string: the argument with its leading
\* caret stripped, followed by ".0.0" when that has one component, by ".0" when it
\* has two, and by nothing when it has three or more.
C1_NormalizeZeroFills ==
    nv_pc \in {"returned", "returned2"} =>
        /\ IsString(nv_out)
        /\ \E k \in 0..Len(nv_in) :
               LET t == SubSeq(nv_in, k + 1, Len(nv_in))
               IN CaretStripped(nv_in, t) /\ nv_out = ZeroFill(t)

C1_Witness ==
    /\ nv_pc = "returned"
    /\ nv_in = <<"^", "1", ".", "0">>
    /\ nv_out = <<"1", ".", "0", ".", "0">>

\* C2: in every record, is_outdated is true iff B > A, A parsed from the normalized
\* declared version and B from the normalized first element of the registry's
\* list, compared numerically by major, minor, patch; no maximum is taken.
C2_OutdatedIffFirstGreater ==
    \A n \in DepNames :
        HasRecord(n) =>
            /\ Looked(n) # <<>>
            /\ fut[n].result.rec.is_outdated
                   = (Key(ParsedFirst(n)) > Key(ParsedDeclared(n)))

C2_Witness ==
    \E n \in DepNames :
        /\ HasRecord(n)
        /\ Declared(n).v = V_1_2
        /\ Looked(n) = <<V_1_2_0, V_1_3_0>>
        /\ ~fut[n].result.rec.is_outdated

\* C3: every record of the result set belongs to a dependency whose lookup returned
\* at least one version and whose declared and first listed versions both parse
\* after normalization; a dependency with zero versions or an unparsable version
\* never appears in the result set.
C3_RecordsOnlyForParsed ==
    /\ \A i \in 1..Len(analyses) :
           /\ analyses[i].name \in DepNames
           /\ Looked(analyses[i].name) # <<>>
           /\ ParsedDeclared(analyses[i].name).ok
           /\ ParsedFirst(analyses[i].name).ok
    /\ \A n \in DepNames :
           (Launched(n) /\ (Looked(n) = <<>> \/ ~ParsedDeclared(n).ok
                            \/ ~ParsedFirst(n).ok))
               => ~InResult(n)

C3_Witness ==
    /\ pc = "exit_ok"
    /\ Len(analyses) = 1
    /\ \E n \in DepNames :
           /\ fut[n].st = "done"
           /\ fut[n].send = "http_ok"
           /\ Looked(n) # <<>>
           /\ ~ParsedDeclared(n).ok
           /\ ~InResult(n)

\* C4: per-item errors never abort the batch: with a readable, decodable manifest
\* the run never ends in an error, and the returned result set holds the record of
\* every dependency whose own analysis succeeded, whatever the others did.
C4_ItemErrorsNeverAbort ==
    /\ ~Fatal => pc # "exit_err"
    /\ Returned =>
           \A n \in DepNames :
               Analysable(n) =>
                   \E i \in 1..Len(analyses) : analyses[i] = fut[n].result.rec
                                               /\ analyses[i].name = n

C4_Witness ==
    /\ pc = "exit_ok"
    /\ Len(analyses) = 1
    /\ \E n, m \in DepNames :
           /\ fut[n].result.kind = "Err"
           /\ fut[n].send = "transport_err"
           /\ Analysable(m)
           /\ analyses[1].name = m

\* C5: with a manifest that is missing, unreadable or undecodable, the run can only
\* end in the error exit, and no analysis is created or started and no registry
\* request is issued.
C5_FatalBeforeAnalysis ==
    Fatal =>
        /\ pc \in {"main", "read", "decode", "exit_err"}
        /\ (pc # "exit_err" => ENABLED Next)
        /\ futures = <<>>
        /\ requests = {}
        /\ \A n \in DepNames : ~Launched(n)

C5_Witness ==
    /\ pc = "exit_err"
    /\ manifest.exists
    /\ manifest.readable
    /\ ~manifest.decodable
    /\ manifest.dependencies.some
    /\ Extractable = DepNames

\* C6: the orchestrator creates one analysis for every dependency with an
\* extractable version before any of them runs, and it returns, and main reports,
\* only when every one of them has finished; none is left unstarted or in flight.
C6_JoinIsBarrier ==
    /\ pc = "launch" => (polled = 0 /\ requests = {})
    /\ pc \in {"join", "report", "exit_ok"} =>
           /\ {futures[i] : i \in 1..Len(futures)} = Extractable
           /\ Len(futures) = Cardinality(Extractable)
           /\ \A n \in DepNames : Launched(n) <=> n \in Extractable
    /\ Returned =>
           /\ \A n \in Extractable : fut[n].st = "done"
           /\ \A n \in DepNames : fut[n].st \in {"absent", "done"}
           /\ requests = Extractable

C6_Witness ==
    /\ pc = "exit_ok"
    /\ Len(futures) = 2
    /\ completion = <<futures[2], futures[1]>>
    /\ fut[futures[1]].result.kind = "Err"
    /\ fut[futures[2]].result.kind = "Some"

\* C7: normalizing a string whose leading caret the caller has already removed
\* gives the same result as normalizing the caret-prefixed original.
C7_CaretStripIdempotent ==
    nv_pc = "returned2" => nv_out2 = nv_out

C7_Witness ==
    /\ nv_pc = "returned2"
    /\ nv_in = <<"^", "1", ".", "0">>
    /\ nv_out2 = <<"1", ".", "0", ".", "0">>

\* C8: in every record, name is the dependency's name, current_version is the
\* declared string with its leading caret stripped and not zero-filled, and
\* latest_version is the canonical three-component form of the normalized first
\* registry version; the two end-to-end examples give the records stated.
C8_RecordFields ==
    \A n \in DepNames :
        HasRecord(n) =>
            LET rec == fut[n].result.rec
            IN /\ rec.name = n
               /\ CaretStripped(Declared(n).v, rec.current_version)
               /\ DotCount(rec.latest_version) = 2
               /\ rec.latest_version = normalize_version(Looked(n)[1])
               /\ (Declared(n).v = V_1_2 /\ Looked(n) = <<V_1_3_0, V_1_2_0>>
                     => rec = [name |-> n, current_version |-> V_1_2,
                               latest_version |-> V_1_3_0, is_outdated |-> TRUE])
               /\ (Declared(n).v = V_c2_0_0 /\ Looked(n) = <<V_2_0_0>>
                     => rec = [name |-> n, current_version |-> V_2_0_0,
                               latest_version |-> V_2_0_0, is_outdated |-> FALSE])

C8_Witness ==
    /\ pc = "exit_ok"
    /\ Len(analyses) = 2
    /\ analyses[1] = [name |-> "bar", current_version |-> V_2_0_0,
                      latest_version |-> V_2_0_0, is_outdated |-> FALSE]
    /\ analyses[2] = [name |-> "foo", current_version |-> V_1_2,
                      latest_version |-> V_1_3_0, is_outdated |-> TRUE]

\* C9 as stated: exactly one leading caret is removed and every character after it
\* is kept, by normalize_version and in the current_version of a record.
C9_SingleCaretStripped ==
    /\ nv_pc \in {"returned", "returned2"} =>
           \E k \in 0..Len(nv_in) :
               LET t == SubSeq(nv_in, k + 1, Len(nv_in))
               IN OneCaretStripped(nv_in, t) /\ nv_out = ZeroFill(t)
    /\ \A n \in DepNames :
           HasRecord(n) => OneCaretStripped(Declared(n).v, fut[n].result.rec.current_version)

\* C9 amended: every leading caret is removed and every character after the last
\* of them is kept, so the result never begins with a caret; by normalize_version
\* and in the current_version of a record.
C9_AllCaretsStripped ==
    /\ nv_pc \in {"returned", "returned2"} =>
           \E k \in 0..Len(nv_in) :
               LET t == SubSeq(nv_in, k + 1, Len(nv_in))
               IN AllCaretsStripped(nv_in, t) /\ nv_out = ZeroFill(t)
    /\ \A n \in DepNames :
           HasRecord(n) => AllCaretsStripped(Declared(n).v, fut[n].result.rec.current_version)

C9_Witness ==
    /\ nv_pc = "returned"
    /\ nv_in = <<"^", "^", "1", ".", "0">>
    /\ nv_out = <<"1", ".", "0", ".", "0">>

\* C10: whatever the completion order, the records of the result set appear in
\* ascending dependency-name order, at most one per name.
C10_ResultOrderFixed ==
    \A i, j \in 1..Len(analyses) :
        i < j => NameRank(analyses[i].name) < NameRank(analyses[j].name)

C10_Witness ==
    /\ pc = "exit_ok"
    /\ Len(analyses) = 2
    /\ completion = <<analyses[2].name, analyses[1].name>>

====
